---------------------------- MODULE Spec2Model ----------------------------
(***************************************************************************)
(* The satellite's lifecycle hooks (src/src/satellite/src/lib.rs).         *)
(*                                                                         *)
(* on_set_doc decodes the written document into an EmailRequest, builds    *)
(* an EmailPayload, issues one HTTP outcall and classifies its outcome.    *)
(* The six other hooks return Ok(()).                                      *)
(*                                                                         *)
(* A Rust String is a sequence of one-character strings.  A format!        *)
(* template is such a sequence in which the elements "{}" and "{:?}" are   *)
(* the placeholders.  A byte vector is a sequence of numbers 0..255.       *)
(***************************************************************************)
EXTENDS Integers, Sequences, FiniteSets, TLC

(***************************************************************************)
(* Bounds of the model.                                                    *)
(***************************************************************************)
\* invocations of hooks that may be in flight at once
NumInv == 2
\* longest user_name / recipient_name of a decoded request
MaxNameLen == 1
\* longest document key
MaxKeyLen == 1

Inv == 1..NumInv

\* every string over alphabet A of length at most n
Strs(A, n) == UNION {[1..k -> A] : k \in 0..n}

StartsWith(s, p) == Len(s) >= Len(p) /\ SubSeq(s, 1, Len(p)) = p

(***************************************************************************)
(* String literals of the source.                                          *)
(***************************************************************************)
\* lib.rs:45
TextTemplate ==
    <<"H","e","l","l","o"," ","{}",",","\n","\n","{}"," ","h","a","s"," ","s",
      "h","a","r","e","d"," ","s","o","m","e"," ","f","i","l","e","s"," ","w",
      "i","t","h"," ","y","o","u"," ","t","h","r","o","u","g","h"," ","F","u",
      "t","u","r","a",".","\n","\n","Y","o","u"," ","c","a","n"," ","a","c",
      "c","e","s","s"," ","y","o","u","r"," ","s","h","a","r","e","d"," ","f",
      "i","l","e","s"," ","a","t",":"," ","h","t","t","p","s",":","/","/","f",
      "u","t","u","r","a",".","a","p","p","\n","\n","B","e","s","t"," ","r",
      "e","g","a","r","d","s",",","\n","T","h","e"," ","F","u","t","u","r",
      "a"," ","T","e","a","m">>

\* lib.rs:53
SerializeErrTemplate ==
    <<"F","a","i","l","e","d"," ","t","o"," ","s","e","r","i","a","l","i","z",
      "e"," ","e","m","a","i","l"," ","p","a","y","l","o","a","d",":"," ","{}">>

\* lib.rs:58
ApplicationJson ==
    <<"a","p","p","l","i","c","a","t","i","o","n","/","j","s","o","n">>

\* lib.rs:62
BearerTemplate ==
    <<"B","e","a","r","e","r"," ","{}">>

\* lib.rs:66
KeyTemplate ==
    <<"f","u","t","u","r","a","-","{}">>

\* lib.rs:71
Url == "https://observatory-7kdhmtcbfq-oa.a.run.app/notifications/email"

\* lib.rs:74
MaxResponseBytes == 1000

\* lib.rs:79, the u128 literal as written (beyond the model checker's integers)
Cycles == "5_000_000_000"

\* lib.rs:82
PrintTemplate ==
    <<"E","m","a","i","l"," ","s","e","n","t"," ","s","u","c","c","e","s","s",
      "f","u","l","l","y"," ","t","o"," ","{}">>

\* lib.rs:86
StatusErrTemplate ==
    <<"E","m","a","i","l"," ","A","P","I"," ","r","e","t","u","r","n","e","d",
      " ","s","t","a","t","u","s"," ","{}",":"," ","{}">>

\* lib.rs:90
RejectErrTemplate ==
    <<"H","T","T","P"," ","r","e","q","u","e","s","t"," ","f","a","i","l","e",
      "d","."," ","R","e","j","e","c","t","i","o","n","C","o","d","e",":"," ",
      "{:?}",","," ","E","r","r","o","r",":"," ","{}">>

\* lib.rs:36, the collections the on_set_doc hook is registered for
OnSetDocCollections == {"email_requests"}

(***************************************************************************)
(* format!: the template is walked once, left to right; each placeholder   *)
(* is replaced by the next argument, already rendered by Display or Debug. *)
(* An argument is copied verbatim and never scanned for placeholders.      *)
(***************************************************************************)
Placeholders == {"{}", "{:?}"}

\* the concatenation of the sequences pieces[1], ..., pieces[Len(pieces)],
\* by halves: cat[lo, hi] is that of pieces[lo], ..., pieces[hi]
Concat(pieces) ==
    LET cat[lo \in 1..(Len(pieces) + 1), hi \in 0..Len(pieces)] ==
            IF lo > hi THEN <<>>
            ELSE IF lo = hi THEN pieces[lo]
            ELSE cat[lo, (lo + hi) \div 2] \o cat[((lo + hi) \div 2) + 1, hi]
    IN  cat[1, Len(pieces)]

\* the text of fmt from position i on, with the placeholders filled from
\* args[a] on
RECURSIVE FormatFrom(_, _, _, _)
FormatFrom(fmt, args, i, a) ==
    LET holes == {j \in i..Len(fmt) : fmt[j] \in Placeholders} IN
    IF holes = {} THEN SubSeq(fmt, i, Len(fmt))
    ELSE LET h == CHOOSE j \in holes : \A k \in holes : j <= k
         IN  SubSeq(fmt, i, h - 1) \o args[a]
                 \o FormatFrom(fmt, args, h + 1, a + 1)

Format(fmt, args) == FormatFrom(fmt, args, 1, 1)

(***************************************************************************)
(* Display and Debug renderings used by the format! calls.                 *)
(***************************************************************************)
DigitChar == <<"0","1","2","3","4","5","6","7","8","9">>

\* the decimal digits of a natural number
RECURSIVE Digits(_)
Digits(n) ==
    IF n < 10 THEN <<DigitChar[n + 1]>>
    ELSE Digits(n \div 10) \o <<DigitChar[(n % 10) + 1]>>

\* Display of candid::Nat (lib.rs:86): the decimal digits, in groups of
\* three from the right separated by "_"
RECURSIVE NatDisplay(_)
NatDisplay(n) ==
    IF n < 1000 THEN Digits(n)
    ELSE LET r == n % 1000
             low == IF r < 10 THEN <<"0","0">> \o Digits(r)
                    ELSE IF r < 100 THEN <<"0">> \o Digits(r)
                    ELSE Digits(r)
         IN  NatDisplay(n \div 1000) \o <<"_">> \o low

\* the variants of RejectionCode (lib.rs:89, 90)
RejectionCodes ==
    {"NoError", "SysFatal", "SysTransient", "DestinationInvalid",
     "CanisterReject", "CanisterError", "Unknown"}

\* Debug of RejectionCode (lib.rs:90): the variant's name
RejectionCodeDebug(r) ==
    CASE r = "NoError" -> <<"N","o","E","r","r","o","r">>
      [] r = "SysFatal" -> <<"S","y","s","F","a","t","a","l">>
      [] r = "SysTransient" -> <<"S","y","s","T","r","a","n","s","i","e","n","t">>
      [] r = "DestinationInvalid" ->
             <<"D","e","s","t","i","n","a","t","i","o","n","I","n","v","a","l","i","d">>
      [] r = "CanisterReject" ->
             <<"C","a","n","i","s","t","e","r","R","e","j","e","c","t">>
      [] r = "CanisterError" ->
             <<"C","a","n","i","s","t","e","r","E","r","r","o","r">>
      [] r = "Unknown" -> <<"U","n","k","n","o","w","n">>

(***************************************************************************)
(* String::from_utf8_lossy (lib.rs:85).  A byte below 0x80 is its ASCII    *)
(* character; a lead byte 0xC2..0xDF followed by a continuation byte       *)
(* 0x80..0xBF is one two-byte character; every other byte the model's      *)
(* bodies hold (a lone lead, a lone continuation, 0xF5..0xFF) is replaced  *)
(* by U+FFFD.  A character outside ASCII, and the backquote, is written by   *)
(* its code point ("U+00E9").                                              *)
(***************************************************************************)
ReplacementChar == "U+FFFD"

AsciiChar(b) ==
    CASE b = 97 -> "a" [] b = 100 -> "d" [] b = 101 -> "e" [] b = 108 -> "l"
      [] b = 111 -> "o" [] b = 114 -> "r" [] b = 118 -> "v"
      [] b = 34 -> "\"" [] b = 10 -> "\n"

TwoByteChar(lead, cont) ==
    IF lead = 195 /\ cont = 169 THEN "U+00E9"
    ELSE <<"U+", ((lead % 32) * 64) + (cont % 64)>>

IsContinuation(b) == b >= 128 /\ b <= 191

RECURSIVE Utf8LossyFrom(_, _)
Utf8LossyFrom(bytes, i) ==
    IF i > Len(bytes) THEN <<>>
    ELSE LET b == bytes[i] IN
         IF b < 128 THEN <<AsciiChar(b)>> \o Utf8LossyFrom(bytes, i + 1)
         ELSE IF b >= 194 /\ b <= 223 /\ i < Len(bytes)
                 /\ IsContinuation(bytes[i + 1])
         THEN <<TwoByteChar(b, bytes[i + 1])>> \o Utf8LossyFrom(bytes, i + 2)
         ELSE <<ReplacementChar>> \o Utf8LossyFrom(bytes, i + 1)

from_utf8_lossy(bytes) == Utf8LossyFrom(bytes, 1)

(***************************************************************************)
(* serde_json::to_string of an EmailPayload (lib.rs:28-34, 52): a JSON     *)
(* object with the four fields in declaration order, each value a JSON     *)
(* string with its quotes, backslashes and control characters escaped.     *)
(***************************************************************************)
EscapeChar(c) ==
    CASE c = "\"" -> <<"\\", "\"">>
      [] c = "\\" -> <<"\\", "\\">>
      [] c = "\n" -> <<"\\", "n">>
      [] c = "\r" -> <<"\\", "r">>
      [] c = "\t" -> <<"\\", "t">>
      [] OTHER -> <<c>>

JsonString(s) ==
    <<"\"">> \o Concat([i \in 1..Len(s) |-> EscapeChar(s[i])]) \o <<"\"">>

\* struct EmailPayload, lib.rs:28-34
EmailPayloadFields == <<"from", "to", "subject", "text">>

\* struct EmailRequest, lib.rs:18-26
EmailRequestFields ==
    <<"from", "to", "subject", "text", "user_name", "recipient_name">>

\* the characters of a field's name
FieldText(name) ==
    CASE name = "from" -> <<"f","r","o","m">>
      [] name = "to" -> <<"t","o">>
      [] name = "subject" -> <<"s","u","b","j","e","c","t">>
      [] name = "text" -> <<"t","e","x","t">>
      [] name = "user_name" -> <<"u","s","e","r","_","n","a","m","e">>
      [] name = "recipient_name" ->
             <<"r","e","c","i","p","i","e","n","t","_","n","a","m","e">>

RECURSIVE JsonMembers(_, _)
JsonMembers(payload, k) ==
    IF k > Len(EmailPayloadFields) THEN <<>>
    ELSE (IF k > 1 THEN <<",">> ELSE <<>>)
         \o JsonString(FieldText(EmailPayloadFields[k])) \o <<":">>
         \o JsonString(payload[EmailPayloadFields[k]])
         \o JsonMembers(payload, k + 1)

\* serializing a struct of Strings into a String has no failing case
to_string(payload) ==
    [ok |-> TRUE, val |-> <<"{">> \o JsonMembers(payload, 1) \o <<"}">>]

(***************************************************************************)
(* decode_doc_data into an EmailRequest (lib.rs:18-26, 38).  The document  *)
(* bytes are seen as what they parse to: "garbage" (not JSON), a JSON      *)
(* object (a function from member names to values), a JSON array or a      *)
(* JSON scalar.  A value is a string, a number or null.  A struct is       *)
(* decoded from an object by field name (unknown members are ignored) or   *)
(* from an array by position.  The error is serde's message without its    *)
(* line and column; of several defects the first in field order is named.  *)
(***************************************************************************)
MissingFieldText ==
    <<"m","i","s","s","i","n","g"," ","f","i","e","l","d"," ","U+0060","{}","U+0060">>

InvalidTypeText ==
    <<"i","n","v","a","l","i","d"," ","t","y","p","e",":"," ","{}",","," ",
      "e","x","p","e","c","t","e","d"," ","a"," ","s","t","r","i","n","g">>

InvalidLengthText ==
    <<"i","n","v","a","l","i","d"," ","l","e","n","g","t","h"," ","{}",",",
      " ","e","x","p","e","c","t","e","d"," ","s","t","r","u","c","t"," ","E",
      "m","a","i","l","R","e","q","u","e","s","t"," ","w","i","t","h"," ","6",
      " ","e","l","e","m","e","n","t","s">>

InvalidStructText ==
    <<"i","n","v","a","l","i","d"," ","t","y","p","e",":"," ","{}",","," ",
      "e","x","p","e","c","t","e","d"," ","s","t","r","u","c","t"," ","E","m",
      "a","i","l","R","e","q","u","e","s","t">>

TrailingText ==
    <<"t","r","a","i","l","i","n","g"," ","c","h","a","r","a","c","t","e","r",
      "s">>

ExpectedValueText ==
    <<"e","x","p","e","c","t","e","d"," ","v","a","l","u","e">>

JStr(s) == [t |-> "string", s |-> s]
JNum(n) == [t |-> "number", n |-> n]
JNull == [t |-> "null"]

\* how serde names a value of the wrong type
Unexpected(v) ==
    CASE v.t = "number" -> <<"i","n","t","e","g","e","r"," ","U+0060">>
                             \o Digits(v.n) \o <<"U+0060">>
      [] v.t = "null" -> <<"n","u","l","l">>
      [] v.t = "string" -> <<"s","t","r","i","n","g"," ">> \o JsonString(v.s)

Least(S) == CHOOSE k \in S : \A j \in S : k <= j

NFields == Len(EmailRequestFields)

\* DecodeObject with every field optional: a missing member decodes to the
\* empty String
DecodeObjectLenient(f) ==
    LET mistyped == {k \in 1..NFields :
                        /\ EmailRequestFields[k] \in DOMAIN f
                        /\ f[EmailRequestFields[k]].t # "string"}
    IN  IF mistyped # {}
        THEN [ok |-> FALSE,
              err |-> Format(InvalidTypeText,
                        <<Unexpected(f[EmailRequestFields[Least(mistyped)]])>>)]
        ELSE [ok |-> TRUE,
              val |-> [n \in {EmailRequestFields[k] : k \in 1..NFields}
                         |-> IF n \in DOMAIN f THEN f[n].s ELSE <<>>]]

DecodeObject(f) ==
    LET mistyped == {k \in 1..NFields :
                        /\ EmailRequestFields[k] \in DOMAIN f
                        /\ f[EmailRequestFields[k]].t # "string"}
        missing == {k \in 1..NFields : EmailRequestFields[k] \notin DOMAIN f}
    IN  IF mistyped # {}
        THEN [ok |-> FALSE,
              err |-> Format(InvalidTypeText,
                        <<Unexpected(f[EmailRequestFields[Least(mistyped)]])>>)]
        ELSE IF missing # {}
        THEN [ok |-> FALSE,
              err |-> Format(MissingFieldText,
                        <<FieldText(EmailRequestFields[Least(missing)])>>)]
        ELSE [ok |-> TRUE,
              val |-> [n \in {EmailRequestFields[k] : k \in 1..NFields}
                         |-> f[n].s]]

DecodeArray(items) ==
    LET bad == {k \in 1..NFields : k > Len(items) \/ items[k].t # "string"}
    IN  IF bad # {}
        THEN IF Least(bad) > Len(items)
             THEN [ok |-> FALSE,
                   err |-> Format(InvalidLengthText, <<Digits(Len(items))>>)]
             ELSE [ok |-> FALSE,
                   err |-> Format(InvalidTypeText,
                                  <<Unexpected(items[Least(bad)])>>)]
        ELSE IF Len(items) > NFields
        THEN [ok |-> FALSE, err |-> TrailingText]
        ELSE [ok |-> TRUE,
              val |-> [n \in {EmailRequestFields[k] : k \in 1..NFields}
                         |-> items[CHOOSE k \in 1..NFields :
                                      EmailRequestFields[k] = n].s]]

decode_doc_data(data) ==
    CASE data.kind = "garbage" -> [ok |-> FALSE, err |-> ExpectedValueText]
      [] data.kind = "scalar" ->
             [ok |-> FALSE,
              err |-> Format(InvalidStructText, <<Unexpected(data.value)>>)]
      [] data.kind = "array" -> DecodeArray(data.items)
      [] data.kind = "object" -> DecodeObject(data.fields)

(***************************************************************************)
(* Option and Result values.                                               *)
(***************************************************************************)
None == [some |-> FALSE]
Some(v) == [some |-> TRUE, val |-> v]
Ok == [ok |-> TRUE]
Err(e) == [ok |-> FALSE, err |-> e]

(***************************************************************************)
(* The state.  env is the process environment.  Each invocation slot i     *)
(* holds one run of a hook: the hook's name, its position (pc), its        *)
(* argument, the request decoded from it (a local that lives across the    *)
(* await), the requests it handed to http_request_outcall, what the        *)
(* outcall resolved to, the lines it printed and the value it returned.    *)
(***************************************************************************)
VARIABLES env, pc, hook, context, email_data, outcalls, outcome, printed,
          result

vars == <<env, pc, hook, context, email_data, outcalls, outcome, printed,
          result>>

\* std::env::var (lib.rs:62): Err when the variable is not set
env_var(e, name) ==
    IF name \in DOMAIN e THEN [ok |-> TRUE, val |-> e[name]] ELSE [ok |-> FALSE]

\* unwrap_or_default yielding a word for the missing value
unwrap_or_none(r) == IF r.ok THEN r.val ELSE <<"N","o","n","e">>

\* Result::unwrap_or_default (lib.rs:62): the empty String on Err
unwrap_or_default(r) == IF r.ok THEN r.val ELSE <<>>

\* EmailPayloadOf copying the request's text
EmailPayloadCopyText(data) ==
    [from |-> data.from,
     to |-> data.to,
     subject |-> data.subject,
     text |-> data.text]

\* lib.rs:40-49
EmailPayloadOf(data) ==
    [from |-> data.from,
     to |-> data.to,
     subject |-> data.subject,
     text |-> Format(TextTemplate, <<data.recipient_name, data.user_name>>)]

\* lib.rs:62
AuthorizationValue(e) ==
    Format(BearerTemplate,
           <<unwrap_or_default(env_var(e, "NOTIFICATIONS_TOKEN"))>>)

\* IdempotencyKeyValue over the key without its "/" characters
IdempotencyKeyValueSanitized(key) ==
    Format(KeyTemplate, <<SelectSeq(key, LAMBDA c : c # "/")>>)

\* lib.rs:66
IdempotencyKeyValue(key) == Format(KeyTemplate, <<key>>)

\* lib.rs:55-68
RequestHeaders(ctx, e) ==
    <<[name |-> "Content-Type", value |-> ApplicationJson],
      [name |-> "Authorization", value |-> AuthorizationValue(e)],
      [name |-> "idempotency-key", value |-> IdempotencyKeyValue(ctx.key)]>>

\* lib.rs:70-77, with the cycles of lib.rs:79.  into_bytes keeps the text:
\* the body is written as the String whose UTF-8 bytes are sent.
HttpRequestOf(json_body, headers) ==
    [url |-> Url,
     method |-> "POST",
     body |-> Some(json_body),
     max_response_bytes |-> Some(MaxResponseBytes),
     transform |-> None,
     headers |-> headers,
     cycles |-> Cycles]

\* IsSuccessStatus with the upper limit included
IsSuccessStatusInclusive(status) == status >= 200 /\ status <= 300

\* lib.rs:81
IsSuccessStatus(status) == status >= 200 /\ status < 300

\* what the outcall resolves to: Ok((response,)) or Err((r, m))
Response(status, body) == [ok |-> TRUE, status |-> status, body |-> body]
Rejected(r, m) == [ok |-> FALSE, code |-> r, message |-> m]

\* MatchOutcome reporting a rejection in the words of a remote status
MatchOutcomeConfused(o) ==
    IF o.ok
    THEN IF o.status >= 200 /\ o.status < 300
         THEN Ok
         ELSE Err(Format(StatusErrTemplate,
                         <<NatDisplay(o.status), from_utf8_lossy(o.body)>>))
    ELSE Err(Format(StatusErrTemplate,
                    <<RejectionCodeDebug(o.code), o.message>>))

\* MatchOutcome ignoring a rejected outcall
MatchOutcomeSwallow(o) ==
    IF o.ok
    THEN IF o.status >= 200 /\ o.status < 300
         THEN Ok
         ELSE Err(Format(StatusErrTemplate,
                         <<NatDisplay(o.status), from_utf8_lossy(o.body)>>))
    ELSE Ok

\* lib.rs:79-92, the value of the match
MatchOutcome(o) ==
    IF o.ok
    THEN IF IsSuccessStatus(o.status)
         THEN Ok
         ELSE Err(Format(StatusErrTemplate,
                         <<NatDisplay(o.status), from_utf8_lossy(o.body)>>))
    ELSE Err(Format(RejectErrTemplate,
                    <<RejectionCodeDebug(o.code), o.message>>))

\* lib.rs:82, the lines printed by the match
MatchPrinted(o, data) ==
    IF o.ok /\ IsSuccessStatus(o.status)
    THEN <<Format(PrintTemplate, <<data.to>>)>>
    ELSE <<>>

(***************************************************************************)
(* The inputs: environments, document-store events, outcomes of the        *)
(* outcall.                                                                *)
(***************************************************************************)
\* NOTIFICATIONS_TOKEN not set, set to the empty string, set to a secret
NoEnv == <<>>
TokenEnv(t) == [n \in {"NOTIFICATIONS_TOKEN"} |-> t]
Secret == <<"s","k">>
Envs == {NoEnv, TokenEnv(<<>>), TokenEnv(Secret)}

NameAlphabet == {"B", "\""}
Names == Strs(NameAlphabet, MaxNameLen)

KeyAlphabet == {"d", "/"}
Keys == Strs(KeyAlphabet, MaxKeyLen)

Collections == {"email_requests", "other"}

AddrA == <<"a","@","x",".","c","o","m">>
AddrB == <<"b","@","x",".","c","o","m">>

Envelopes ==
    {[from |-> AddrA, to |-> AddrB, subject |-> <<"S">>],
     [from |-> AddrB, to |-> AddrA, subject |-> <<>>]}

Texts == {<<"i","g","n","o","r","e","d">>, <<>>}

EmailRequests ==
    {[from |-> p.from, to |-> p.to, subject |-> p.subject, text |-> t,
      user_name |-> u, recipient_name |-> r] :
        p \in Envelopes, t \in Texts, u \in Names, r \in Names}

BaseRequest ==
    [from |-> AddrA, to |-> AddrB, subject |-> <<"S">>,
     text |-> <<"i","g","n","o","r","e","d">>,
     user_name |-> <<"B">>, recipient_name |-> <<"\"">>]

\* the JSON object a request is stored as
MembersOf(req) == [n \in DOMAIN req |-> JStr(req[n])]
ObjectDoc(f) == [kind |-> "object", fields |-> f]
ArrayDoc(items) == [kind |-> "array", items |-> items]

Without(f, n) == [m \in DOMAIN f \ {n} |-> f[m]]
With(f, n, v) == [m \in DOMAIN f \cup {n} |-> IF m = n THEN v ELSE f[m]]

BaseItems ==
    [k \in 1..NFields |-> JStr(BaseRequest[EmailRequestFields[k]])]

\* documents that decode: every request as an object, one with a member the
\* struct does not have, one as an array
GoodDocuments ==
    {ObjectDoc(MembersOf(r)) : r \in EmailRequests}
    \cup {ObjectDoc(With(MembersOf(BaseRequest), "cc", JStr(AddrA))),
          ArrayDoc(BaseItems)}

\* documents that do not decode
BadDocuments ==
    {[kind |-> "garbage"], [kind |-> "scalar", value |-> JNum(7)]}
    \cup {ObjectDoc(Without(MembersOf(BaseRequest), n)) :
             n \in DOMAIN BaseRequest}
    \cup {ObjectDoc(With(MembersOf(BaseRequest), n, v)) :
             n \in DOMAIN BaseRequest, v \in {JNum(7), JNull}}
    \cup {ArrayDoc(SubSeq(BaseItems, 1, NFields - 1)),
          ArrayDoc(Append(BaseItems, JStr(AddrA))),
          ArrayDoc([BaseItems EXCEPT ![2] = JNull])}

Documents == GoodDocuments \cup BadDocuments

Contexts == [collection : Collections, key : Keys, data : Documents]

\* what the argument of another hook is seen as
StubContexts == [collection : Collections, key : Keys]

Statuses == {199, 200, 201, 299, 300, 404, 500, 503}

\* response bodies: empty, "overloaded", and bytes that are not UTF-8
\* around a two-byte character
Bodies ==
    {<<>>,
     <<111, 118, 101, 114, 108, 111, 97, 100, 101, 100>>,
     <<255, 195, 169, 195>>}

Messages ==
    {<<"t","i","m","e","o","u","t">>,
     <<"c","o","n","n","e","c","t","i","o","n"," ","r","e","f","u","s","e","d">>}

Outcomes ==
    {Response(st, b) : st \in Statuses, b \in Bodies}
    \cup {Rejected(r, m) : r \in RejectionCodes, m \in Messages}

Init ==
    /\ env \in Envs
    /\ pc = [i \in Inv |-> "idle"]
    /\ hook = [i \in Inv |-> None]
    /\ context = [i \in Inv |-> None]
    /\ email_data = [i \in Inv |-> None]
    /\ outcalls = [i \in Inv |-> <<>>]
    /\ outcome = [i \in Inv |-> None]
    /\ printed = [i \in Inv |-> <<>>]
    /\ result = [i \in Inv |-> None]

\* a hook that ran to its return
Return(i, name, ctx, r) ==
    /\ pc' = [pc EXCEPT ![i] = "returned"]
    /\ hook' = [hook EXCEPT ![i] = Some(name)]
    /\ context' = [context EXCEPT ![i] = Some(ctx)]
    /\ result' = [result EXCEPT ![i] = Some(r)]

(***************************************************************************)
(* on_set_doc up to its await (lib.rs:36-79).  The hook runs for documents *)
(* of the collections it is registered for.  Each let of the source is a   *)
(* name bound to the one value of its expression.                          *)
(***************************************************************************)
on_set_doc(i, ctx) ==
    /\ pc[i] = "idle"
    /\ ctx.collection \in OnSetDocCollections
    /\ \E decoded \in {decode_doc_data(ctx.data)} :
       IF ~decoded.ok
       THEN /\ Return(i, "on_set_doc", ctx, Err(decoded.err))
            /\ UNCHANGED <<env, email_data, outcalls, outcome, printed>>
       ELSE \E email_payload \in {EmailPayloadOf(decoded.val)} :
            \E json_body \in {to_string(email_payload)} :
            IF ~json_body.ok
            THEN /\ Return(i, "on_set_doc", ctx,
                           Err(Format(SerializeErrTemplate, <<json_body.err>>)))
                 /\ UNCHANGED <<env, email_data, outcalls, outcome, printed>>
            ELSE \E request \in {HttpRequestOf(json_body.val,
                                               RequestHeaders(ctx, env))} :
                 /\ pc' = [pc EXCEPT ![i] = "awaiting"]
                 /\ hook' = [hook EXCEPT ![i] = Some("on_set_doc")]
                 /\ context' = [context EXCEPT ![i] = Some(ctx)]
                 /\ email_data' = [email_data EXCEPT ![i] = Some(decoded.val)]
                 /\ outcalls' = [outcalls EXCEPT ![i] = Append(@, request)]
                 /\ UNCHANGED <<env, outcome, printed, result>>

\* on_set_doc_resume issuing the request again when the outcome is not a
\* success
on_set_doc_resume_retry(i, o) ==
    /\ pc[i] = "awaiting"
    /\ IF MatchOutcome(o).ok \/ Len(outcalls[i]) > 1
       THEN /\ pc' = [pc EXCEPT ![i] = "returned"]
            /\ outcome' = [outcome EXCEPT ![i] = Some(o)]
            /\ printed' = [printed EXCEPT ![i] =
                              @ \o MatchPrinted(o, email_data[i].val)]
            /\ result' = [result EXCEPT ![i] = Some(MatchOutcome(o))]
            /\ UNCHANGED <<env, hook, context, email_data, outcalls>>
       ELSE /\ outcalls' = [outcalls EXCEPT ![i] = Append(@, @[1])]
            /\ UNCHANGED <<env, pc, hook, context, email_data, outcome,
                           printed, result>>

\* on_set_doc_resume taking the completions in the order of the
\* invocations: one waits while an earlier invocation is suspended
on_set_doc_resume_serial(i, o) ==
    /\ pc[i] = "awaiting"
    /\ \A j \in Inv : j < i => pc[j] # "awaiting"
    /\ pc' = [pc EXCEPT ![i] = "returned"]
    /\ outcome' = [outcome EXCEPT ![i] = Some(o)]
    /\ printed' = [printed EXCEPT ![i] = @ \o MatchPrinted(o, email_data[i].val)]
    /\ result' = [result EXCEPT ![i] = Some(MatchOutcome(o))]
    /\ UNCHANGED <<env, hook, context, email_data, outcalls>>

(***************************************************************************)
(* on_set_doc from the completion of its outcall to its return             *)
(* (lib.rs:79-92).  A response never holds more than the request's         *)
(* max_response_bytes.                                                     *)
(***************************************************************************)
on_set_doc_resume(i, o) ==
    /\ pc[i] = "awaiting"
    /\ o.ok => Len(o.body) <= outcalls[i][Len(outcalls[i])].max_response_bytes.val
    /\ pc' = [pc EXCEPT ![i] = "returned"]
    /\ outcome' = [outcome EXCEPT ![i] = Some(o)]
    /\ printed' = [printed EXCEPT ![i] = @ \o MatchPrinted(o, email_data[i].val)]
    /\ result' = [result EXCEPT ![i] = Some(MatchOutcome(o))]
    /\ UNCHANGED <<env, hook, context, email_data, outcalls>>

(***************************************************************************)
(* The six other hooks (lib.rs:95-123).                                    *)
(***************************************************************************)
\* lib.rs:95-98
on_delete_doc(i, ctx) ==
    /\ pc[i] = "idle"
    /\ Return(i, "on_delete_doc", ctx, Ok)
    /\ UNCHANGED <<env, email_data, outcalls, outcome, printed>>

\* lib.rs:100-103
on_delete_many_docs(i, ctx) ==
    /\ pc[i] = "idle"
    /\ Return(i, "on_delete_many_docs", ctx, Ok)
    /\ UNCHANGED <<env, email_data, outcalls, outcome, printed>>

\* lib.rs:105-108
on_upload_asset(i, ctx) ==
    /\ pc[i] = "idle"
    /\ Return(i, "on_upload_asset", ctx, Ok)
    /\ UNCHANGED <<env, email_data, outcalls, outcome, printed>>

\* lib.rs:110-113
on_delete_asset(i, ctx) ==
    /\ pc[i] = "idle"
    /\ Return(i, "on_delete_asset", ctx, Ok)
    /\ UNCHANGED <<env, email_data, outcalls, outcome, printed>>

\* lib.rs:115-118
on_delete_many_assets(i, ctx) ==
    /\ pc[i] = "idle"
    /\ Return(i, "on_delete_many_assets", ctx, Ok)
    /\ UNCHANGED <<env, email_data, outcalls, outcome, printed>>

\* on_set_many_docs sending a notification for the documents it is given
on_set_many_docs_notifying(i, ctx) ==
    /\ pc[i] = "idle"
    /\ pc' = [pc EXCEPT ![i] = "awaiting"]
    /\ hook' = [hook EXCEPT ![i] = Some("on_set_many_docs")]
    /\ context' = [context EXCEPT ![i] = Some(ctx)]
    /\ email_data' = [email_data EXCEPT ![i] = Some(BaseRequest)]
    /\ outcalls' = [outcalls EXCEPT ![i] =
           Append(@, HttpRequestOf(to_string(EmailPayloadOf(BaseRequest)).val,
                                   RequestHeaders(ctx, env)))]
    /\ UNCHANGED <<env, outcome, printed, result>>

\* lib.rs:120-123
on_set_many_docs(i, ctx) ==
    /\ pc[i] = "idle"
    /\ Return(i, "on_set_many_docs", ctx, Ok)
    /\ UNCHANGED <<env, email_data, outcalls, outcome, printed>>

\* the environment variable is set, changed or removed outside the hooks
SetEnv(e) ==
    /\ env # e
    /\ env' = e
    /\ UNCHANGED <<pc, hook, context, email_data, outcalls, outcome, printed,
                   result>>

(***************************************************************************)
(* Spec: one invocation, over every input.                                 *)
(***************************************************************************)
Next ==
    \/ pc[1] = "idle" /\ \E ctx \in Contexts : on_set_doc(1, ctx)
    \/ pc[1] = "awaiting" /\ \E o \in Outcomes : on_set_doc_resume(1, o)
    \/ pc[1] = "idle" /\ \E ctx \in StubContexts : on_delete_doc(1, ctx)
    \/ pc[1] = "idle" /\ \E ctx \in StubContexts : on_delete_many_docs(1, ctx)
    \/ pc[1] = "idle" /\ \E ctx \in StubContexts : on_upload_asset(1, ctx)
    \/ pc[1] = "idle" /\ \E ctx \in StubContexts : on_delete_asset(1, ctx)
    \/ pc[1] = "idle" /\ \E ctx \in StubContexts : on_delete_many_assets(1, ctx)
    \/ pc[1] = "idle" /\ \E ctx \in StubContexts : on_set_many_docs(1, ctx)

Spec == Init /\ [][Next]_vars

(***************************************************************************)
(* SpecConc: several invocations of on_set_doc in flight at once, their    *)
(* dispatches and the completions of their outcalls interleaved in every   *)
(* order, while the environment variable changes.                          *)
(***************************************************************************)
ConcEnvs == {NoEnv, TokenEnv(Secret)}

SwappedRequest ==
    [BaseRequest EXCEPT !.user_name = <<"\"">>, !.recipient_name = <<"B">>]

\* two events that differ in the key, two that differ in the document, one
\* whose document does not decode
ConcContexts ==
    {[collection |-> "email_requests", key |-> <<>>,
      data |-> ObjectDoc(MembersOf(BaseRequest))],
     [collection |-> "email_requests", key |-> <<"d">>,
      data |-> ObjectDoc(MembersOf(BaseRequest))],
     [collection |-> "email_requests", key |-> <<"d">>,
      data |-> ObjectDoc(MembersOf(SwappedRequest))],
     [collection |-> "email_requests", key |-> <<>>,
      data |-> ObjectDoc(Without(MembersOf(BaseRequest), "to"))]}

ConcOutcomes ==
    {Response(200, <<>>),
     Response(503, <<111, 118, 101, 114, 108, 111, 97, 100, 101, 100>>),
     Rejected("SysTransient", <<"t","i","m","e","o","u","t">>)}

InitConc ==
    /\ env \in ConcEnvs
    /\ pc = [i \in Inv |-> "idle"]
    /\ hook = [i \in Inv |-> None]
    /\ context = [i \in Inv |-> None]
    /\ email_data = [i \in Inv |-> None]
    /\ outcalls = [i \in Inv |-> <<>>]
    /\ outcome = [i \in Inv |-> None]
    /\ printed = [i \in Inv |-> <<>>]
    /\ result = [i \in Inv |-> None]

NextConc ==
    \/ \E i \in Inv :
          pc[i] = "idle" /\ \E ctx \in ConcContexts : on_set_doc(i, ctx)
    \/ \E i \in Inv :
          pc[i] = "awaiting" /\ \E o \in ConcOutcomes : on_set_doc_resume(i, o)
    \/ \E e \in ConcEnvs : SetEnv(e)

SpecConc == InitConc /\ [][NextConc]_vars

(***************************************************************************)
(* What the claims speak of.                                               *)
(***************************************************************************)
Ran(i, name) == hook[i] = Some(name)

Returned(i, name) == Ran(i, name) /\ pc[i] = "returned"

StubHooks ==
    {"on_delete_doc", "on_delete_many_docs", "on_upload_asset",
     "on_delete_asset", "on_delete_many_assets", "on_set_many_docs"}

RequiredNames ==
    {"from", "to", "subject", "text", "user_name", "recipient_name"}

\* the document is a JSON object holding each required member as a string,
\* or a JSON array of six strings
Decodable(data) ==
    \/ /\ data.kind = "object"
       /\ \A n \in RequiredNames :
             n \in DOMAIN data.fields /\ data.fields[n].t = "string"
    \/ /\ data.kind = "array"
       /\ Len(data.items) = 6
       /\ \A k \in 1..6 : data.items[k].t = "string"

\* the document is malformed, or a required member is absent or mistyped
Undecodable(data) ==
    \/ data.kind \in {"garbage", "scalar"}
    \/ /\ data.kind = "object"
       /\ \E n \in RequiredNames :
             n \notin DOMAIN data.fields \/ data.fields[n].t # "string"
    \/ /\ data.kind = "array"
       /\ \/ Len(data.items) # 6
          \/ \E k \in 1..Len(data.items) : data.items[k].t # "string"

StatusErrPrefix ==
    <<"E","m","a","i","l"," ","A","P","I"," ","r","e","t","u","r","n","e","d",
      " ","s","t","a","t","u","s"," ">>

RejectErrPrefix ==
    <<"H","T","T","P"," ","r","e","q","u","e","s","t"," ","f","a","i","l","e",
      "d","."," ","R","e","j","e","c","t","i","o","n","C","o","d","e",":"," ">>

RejectErrMiddle ==
    <<","," ","E","r","r","o","r",":"," ">>

\* a three-digit status in decimal
StatusText(st) ==
    <<DigitChar[(st \div 100) + 1], DigitChar[((st \div 10) % 10) + 1],
      DigitChar[(st % 10) + 1]>>

\* the text of the response bodies of the model
BodyText(b) ==
    CASE b = <<>> -> <<>>
      [] b = <<111, 118, 101, 114, 108, 111, 97, 100, 101, 100>> ->
             <<"o","v","e","r","l","o","a","d","e","d">>
      [] b = <<255, 195, 169, 195>> -> <<"U+FFFD", "U+00E9", "U+FFFD">>

ExpectedStatusError(o) ==
    StatusErrPrefix \o StatusText(o.status) \o <<":", " ">> \o BodyText(o.body)

ExpectedRejectError(o) ==
    RejectErrPrefix \o RejectionCodeDebug(o.code) \o RejectErrMiddle
        \o o.message

\* C1: when the after-payload of the event does not decode into an
\* EmailRequest (malformed, or a required field absent or mistyped),
\* on_set_doc has returned an error and has issued no outbound call.
C1_DecodeFailureNoCall ==
    \A i \in Inv :
       (Ran(i, "on_set_doc") /\ Undecodable(context[i].val.data))
          => /\ pc[i] = "returned"
             /\ ~result[i].val.ok
             /\ outcalls[i] = <<>>
             /\ outcome[i] = None

C1_Witness ==
    \E i \in Inv :
       /\ Returned(i, "on_set_doc")
       /\ context[i].val.data.kind = "object"
       /\ "to" \notin DOMAIN context[i].val.data.fields
       /\ ~result[i].val.ok
       /\ outcalls[i] = <<>>

\* C2: an invocation of on_set_doc whose payload decodes has issued exactly
\* one outbound call, no invocation has issued more than one, and after the
\* outcome of the call (success, other status, rejection) it has returned
\* with still one call issued.
C2_ExactlyOneCall ==
    \A i \in Inv :
       /\ Len(outcalls[i]) <= 1
       /\ (Ran(i, "on_set_doc") /\ Decodable(context[i].val.data))
             => Len(outcalls[i]) = 1
       /\ (Ran(i, "on_set_doc") /\ outcome[i] # None)
             => pc[i] = "returned" /\ Len(outcalls[i]) = 1

C2_Witness ==
    \E i \in Inv :
       /\ Returned(i, "on_set_doc")
       /\ outcome[i] # None
       /\ outcome[i].val.ok
       /\ outcome[i].val.status = 500
       /\ Len(outcalls[i]) = 1

\* C3: a response is classified by its status alone: a status in [200, 300)
\* makes on_set_doc return Ok(()), any other status makes it return the
\* error that carries the status and the body decoded as text.
C3_StatusClassification ==
    \A i \in Inv :
       (Returned(i, "on_set_doc") /\ outcome[i] # None /\ outcome[i].val.ok)
          => LET o == outcome[i].val IN
             IF 200 <= o.status /\ o.status < 300
             THEN result[i] = Some(Ok)
             ELSE result[i] = Some(Err(ExpectedStatusError(o)))

C3_Witness ==
    \E i \in Inv :
       /\ Returned(i, "on_set_doc")
       /\ outcome[i] =
             Some(Response(503, <<111, 118, 101, 114, 108, 111, 97, 100, 101, 100>>))
       /\ ~result[i].val.ok
       /\ result[i].val.err = ExpectedStatusError(outcome[i].val)

\* C4: a rejected outcall makes on_set_doc return the transport error that
\* carries the rejection code and message, never the remote-status error;
\* a received response is never reported as a transport error.
C4_TransportClassification ==
    \A i \in Inv :
       (Returned(i, "on_set_doc") /\ outcome[i] # None)
          => LET o == outcome[i].val
                 r == result[i].val
             IN  IF o.ok
                 THEN r.ok \/ ~StartsWith(r.err, RejectErrPrefix)
                 ELSE /\ ~r.ok
                      /\ r.err = ExpectedRejectError(o)
                      /\ ~StartsWith(r.err, StatusErrPrefix)

C4_Witness ==
    \E i \in Inv :
       /\ Returned(i, "on_set_doc")
       /\ outcome[i] # None
       /\ ~outcome[i].val.ok
       /\ outcome[i].val.code = "SysTransient"
       /\ result[i] = Some(Err(ExpectedRejectError(outcome[i].val)))

\* C7: an invocation of on_set_doc that has returned returned Ok(()) exactly
\* when it issued one call whose response has a status in [200, 300);
\* otherwise it returned Err, and either it issued no call and none
\* completed, or it issued exactly one and the error is that call's outcome.
C7_AllOrNothing ==
    \A i \in Inv :
       Returned(i, "on_set_doc")
          => LET r == result[i].val IN
             /\ r.ok <=> /\ Len(outcalls[i]) = 1
                         /\ outcome[i] # None
                         /\ outcome[i].val.ok
                         /\ 200 <= outcome[i].val.status
                         /\ outcome[i].val.status < 300
             /\ ~r.ok =>
                   \/ outcalls[i] = <<>> /\ outcome[i] = None
                   \/ /\ Len(outcalls[i]) = 1
                      /\ outcome[i] # None
                      /\ r.err = IF outcome[i].val.ok
                                 THEN ExpectedStatusError(outcome[i].val)
                                 ELSE ExpectedRejectError(outcome[i].val)

C7_Witness ==
    \E i \in Inv :
       /\ Returned(i, "on_set_doc")
       /\ result[i] = Some(Ok)
       /\ Len(outcalls[i]) = 1
       /\ outcome[i].val.status = 299

\* C10: each of the six other hooks has returned Ok(()) and has issued no
\* outbound call, whatever it was given; so has on_set_many_docs for
\* documents of the email_requests collection.
C10_StubHooksNoOp ==
    \A i \in Inv :
       (hook[i] # None /\ hook[i].val \in StubHooks)
          => /\ pc[i] = "returned"
             /\ result[i] = Some(Ok)
             /\ outcalls[i] = <<>>
             /\ outcome[i] = None
             /\ printed[i] = <<>>

C10_Witness ==
    \E i \in Inv :
       /\ Returned(i, "on_set_many_docs")
       /\ context[i].val.collection = "email_requests"
       /\ result[i] = Some(Ok)
       /\ outcalls[i] = <<>>

(***************************************************************************)
(* Reading a request back: the values of a header, and the members of the  *)
(* JSON object in the body (the strings between unescaped quotes, with     *)
(* their escapes undone).                                                  *)
(***************************************************************************)
HeaderValues(req, name) ==
    {req.headers[k].value :
        k \in {k \in 1..Len(req.headers) : req.headers[k].name = name}}

\* the number of backslashes that end at position j of s
RECURSIVE RunBack(_, _)
RunBack(s, j) == IF j >= 1 /\ s[j] = "\\" THEN 1 + RunBack(s, j - 1) ELSE 0

IsEscaped(s, j) == RunBack(s, j - 1) % 2 = 1

UnescapeChar(c) ==
    CASE c = "n" -> "\n" [] c = "r" -> "\r" [] c = "t" -> "\t" [] OTHER -> c

Unescape(s) ==
    Concat([j \in 1..Len(s) |->
              IF IsEscaped(s, j) THEN <<UnescapeChar(s[j])>>
              ELSE IF s[j] = "\\" THEN <<>>
              ELSE <<s[j]>>])

QuotePositions(b) == {j \in 1..Len(b) : b[j] = "\"" /\ ~IsEscaped(b, j)}

Nth(S, k) == CHOOSE q \in S : Cardinality({p \in S : p < q}) = k - 1

\* the members <<name, value>> of the object, in order; <<>> when the text
\* is not an object of string members
ParsedBody(b) ==
    LET Q == QuotePositions(b)
        n == Cardinality(Q)
        open(k) == Nth(Q, (2 * k) - 1)
        close(k) == Nth(Q, 2 * k)
        str(k) == Unescape(SubSeq(b, open(k) + 1, close(k) - 1))
    IN  IF /\ n > 0
           /\ n % 4 = 0
           /\ b[1] = "{"
           /\ b[Len(b)] = "}"
           /\ open(1) = 2
           /\ close(n \div 2) = Len(b) - 1
           /\ \A m \in 1..(n \div 4) :
                 /\ open(2 * m) = close((2 * m) - 1) + 2
                 /\ b[close((2 * m) - 1) + 1] = ":"
                 /\ m > 1 => /\ open((2 * m) - 1) = close((2 * m) - 2) + 2
                             /\ b[close((2 * m) - 2) + 1] = ","
        THEN [m \in 1..(n \div 4) |-> <<str((2 * m) - 1), str(2 * m)>>]
        ELSE <<>>

BearerPrefix == <<"B","e","a","r","e","r"," ">>

FuturaPrefix == <<"f","u","t","u","r","a","-">>

ExpectedGreeting == <<"H","e","l","l","o"," ">>

ExpectedMiddle == <<",","\n","\n">>

ExpectedRest ==
    <<" ","h","a","s"," ","s","h","a","r","e","d"," ","s","o","m","e"," ","f",
      "i","l","e","s"," ","w","i","t","h"," ","y","o","u"," ","t","h","r","o",
      "u","g","h"," ","F","u","t","u","r","a",".","\n","\n","Y","o","u"," ",
      "c","a","n"," ","a","c","c","e","s","s"," ","y","o","u","r"," ","s","h",
      "a","r","e","d"," ","f","i","l","e","s"," ","a","t",":"," ","h","t","t",
      "p","s",":","/","/","f","u","t","u","r","a",".","a","p","p","\n","\n",
      "B","e","s","t"," ","r","e","g","a","r","d","s",",","\n","T","h","e",
      " ","F","u","t","u","r","a"," ","T","e","a","m">>

ExpectedText(recipient_name, user_name) ==
    ExpectedGreeting \o recipient_name \o ExpectedMiddle \o user_name
        \o ExpectedRest

\* the string a decodable document holds for a field
FieldIn(data, name) ==
    IF data.kind = "object" THEN data.fields[name].s
    ELSE data.items[CHOOSE k \in 1..6 : EmailRequestFields[k] = name].s

\* C5: the idempotency-key header of every call issued by on_set_doc is
\* "futura-" followed by the document key of its event, for every key, the
\* empty one included; a call for any other key would carry another value
\* and the value does not depend on the payload.
C5_IdempotencyKey ==
    \A i \in Inv :
       (Ran(i, "on_set_doc") /\ outcalls[i] # <<>>)
          => LET key == context[i].val.key
                 sent == HeaderValues(outcalls[i][1], "idempotency-key")
             IN  /\ sent = {FuturaPrefix \o key}
                 /\ \A k \in Keys :
                       (IdempotencyKeyValue(k) \in sent) <=> (k = key)

C5_Witness ==
    \E i \in Inv :
       /\ Ran(i, "on_set_doc")
       /\ outcalls[i] # <<>>
       /\ context[i].val.key = <<>>
       /\ HeaderValues(outcalls[i][1], "idempotency-key") = {FuturaPrefix}

\* C6: the body of every call issued by on_set_doc is the object whose from,
\* to and subject are those of the request in the document and whose text
\* is the template with recipient_name and then user_name filled in; the
\* request's own text has no influence: the same request with any other
\* text gives the same body.  The body is read while the call is in flight
\* (every call is, from its issue to its completion, which leaves it as it
\* is).
C6_BodyFromRequest ==
    \A i \in Inv :
       (Ran(i, "on_set_doc") /\ pc[i] = "awaiting")
          => LET data == context[i].val.data
                 body == outcalls[i][1].body.val
             IN  /\ ParsedBody(body) =
                       <<<<FieldText("from"), FieldIn(data, "from")>>,
                         <<FieldText("to"), FieldIn(data, "to")>>,
                         <<FieldText("subject"), FieldIn(data, "subject")>>,
                         <<FieldText("text"),
                           ExpectedText(FieldIn(data, "recipient_name"),
                                        FieldIn(data, "user_name"))>>>>
                 /\ \A t \in Texts :
                       to_string(EmailPayloadOf(
                           [email_data[i].val EXCEPT !.text = t])).val = body

C6_Witness ==
    \E i \in Inv :
       /\ Ran(i, "on_set_doc")
       /\ pc[i] = "awaiting"
       /\ email_data[i].val.recipient_name = <<"\"">>
       /\ email_data[i].val.user_name = <<"B">>
       /\ email_data[i].val.text # <<>>
       /\ ParsedBody(outcalls[i][1].body.val)[4][2] =
             ExpectedText(<<"\"">>, <<"B">>)

\* C9: a step in which on_set_doc goes from idle to its await issues one
\* call whose Authorization header is "Bearer " followed by the value
\* NOTIFICATIONS_TOKEN has at that step, and by nothing when it is not set;
\* on_set_doc returns at once only when the document does not decode,
\* whether the variable is set or not.
C9_BearerTokenAtCallTime ==
    [][\A i \in Inv :
          /\ (pc[i] = "idle" /\ pc'[i] = "awaiting")
                => /\ Len(outcalls'[i]) = 1
                   /\ HeaderValues(outcalls'[i][1], "Authorization") =
                         {BearerPrefix \o
                            (IF "NOTIFICATIONS_TOKEN" \in DOMAIN env
                             THEN env["NOTIFICATIONS_TOKEN"] ELSE <<>>)}
          /\ (pc[i] = "idle" /\ pc'[i] = "returned")
                => Undecodable(context'[i].val.data)]_vars

C9_Witness ==
    \E i, j \in Inv :
       /\ pc[i] = "awaiting"
       /\ pc[j] = "awaiting"
       /\ HeaderValues(outcalls[i][1], "Authorization") = {BearerPrefix}
       /\ HeaderValues(outcalls[j][1], "Authorization") =
             {BearerPrefix \o Secret}
       /\ env = NoEnv

\* the request an invocation has issued, without its Authorization header
\* (the one part that depends on the environment)
WithoutAuthorization(calls) ==
    [k \in 1..Len(calls) |->
       [calls[k] EXCEPT !.headers =
           SelectSeq(@, LAMBDA h : h.name # "Authorization")]]

\* C8: with several invocations of on_set_doc in flight, in every
\* interleaving: invocations given the same event have decoded the same
\* request and issued the same call, up to the token read for the
\* Authorization header; those given the same event whose calls had the
\* same outcome have returned and printed the same; and while another
\* invocation is suspended, an idle one can be dispatched on any event and
\* a suspended one can complete with any outcome.
C8_IndependentInvocations ==
    \A i \in Inv :
       /\ \A j \in Inv :
             (pc[i] # "idle" /\ pc[j] # "idle" /\ context[i] = context[j])
                => /\ email_data[i] = email_data[j]
                   /\ WithoutAuthorization(outcalls[i]) =
                         WithoutAuthorization(outcalls[j])
                   /\ (/\ pc[i] = "returned"
                       /\ pc[j] = "returned"
                       /\ outcome[i] = outcome[j])
                         => /\ result[i] = result[j]
                            /\ printed[i] = printed[j]
       /\ (pc[i] = "idle" /\ \E j \in Inv : pc[j] = "awaiting")
             => \A ctx \in ConcContexts : ENABLED on_set_doc(i, ctx)
       /\ (pc[i] = "awaiting" /\ \E j \in Inv \ {i} : pc[j] = "awaiting")
             => \A o \in ConcOutcomes : ENABLED on_set_doc_resume(i, o)

C8_Witness ==
    \E i, j \in Inv :
       /\ i # j
       /\ pc[i] = "awaiting"
       /\ Returned(j, "on_set_doc")
       /\ outcome[j] # None
       /\ context[i] = context[j]

=============================================================================
